---- MODULE Spec2Model ----
(***************************************************************************)
(* Model of the execution engine of RCubic/exectree.py: ExecJob,           *)
(* ExecResource, ExecDependency, ExecIter and ExecTree.                    *)
(*                                                                         *)
(* gevent schedules greenlets cooperatively: a greenlet runs until it      *)
(* blocks (Event.wait, gevent.sleep, Timeout, subprocess I/O).  One action *)
(* of the model is therefore one run of a greenlet from a suspension point *)
(* to the next one, with every call it makes on the way.                   *)
(***************************************************************************)
EXTENDS Integers, Sequences, FiniteSets, TLC

VARIABLES
    cfg,         \* the tree as built: jobs, deps, resources, flags (never changes)
    st,          \* the mutable fields of the jobs, resources and trees, and the greenlets
    main         \* the caller of the top-level tree's run()

state == st.state
events == st.events
used == st.used
cancelled == st.cancelled
done_event == st.done_event
started == st.started
iter_run == st.iter_run
notify == st.notify
tasks == st.tasks
execcount == st.execcount
failcount == st.failcount
errors == st.errors
ret == st.ret
reruns == st.reruns
calls == st.calls

vars == <<cfg, st, main>>

-----------------------------------------------------------------------------
(* Bounds of the model *)

\* max_attempts of _acquire_resources (the source's default is 1000)
MaxAttempts == 2

-----------------------------------------------------------------------------
(* ExecJob's class constants *)

STATE_IDLE == "IDLE"
STATE_RUNNING == "RUNNING"
STATE_SUCCESSFULL == "SUCCESSFULL"
STATE_FAILED == "FAILED"
STATE_CANCELLED == "CANCELLED"
STATE_UNDEF == "UNDEF"
STATE_RESET == "RESET"
STATE_BLOCKED == "BLOCKED"

STATES == {STATE_IDLE, STATE_RUNNING, STATE_SUCCESSFULL, STATE_FAILED,
           STATE_CANCELLED, STATE_UNDEF, STATE_RESET, STATE_BLOCKED}
DEPENDENCY_STATES == {STATE_SUCCESSFULL, STATE_FAILED}
DONE_STATES == {STATE_SUCCESSFULL, STATE_FAILED, STATE_CANCELLED, STATE_UNDEF}
SUCCESS_STATES == {STATE_SUCCESSFULL, STATE_UNDEF}
PRESTART_STATES == {STATE_IDLE, STATE_UNDEF, STATE_BLOCKED}
UNDEF_JOB == "-"

\* jobpath / subtree / iterator not set
None == "None"

-----------------------------------------------------------------------------
(* The objects of the model *)

Jobs == {"A", "B", "C"}
Trees == {"T", "U"}
Resources == {"R1", "R2"}
Top == "T"

Dep(p, c, s) == [parent |-> p, child |-> c, state |-> s]

\* accessors of the tree as built
TreeJobs(t) == cfg.jobs[t]
TreeDeps(t) == cfg.deps[t]
TreeSubtrees(t) == cfg.subtrees[t]
JobTree(j) == cfg.tree[j]
JobPath(j) == cfg.jobpath[j]
JobSubtree(j) == cfg.subtree[j]
JobResources(j) == cfg.resources[j]
MustComplete(j) == cfg.mustcomplete[j]
Avail(r) == cfg.avail[r]
WaitSuccess(t) == cfg.waitsuccess[t]
IterLen(t) == cfg.iterlen[t]

SeqToSet(s) == {s[i] : i \in DOMAIN s}

RECURSIVE Filter(_, _)
Filter(s, keep) ==
    IF s = <<>> THEN <<>>
    ELSE IF Head(s) \in keep THEN <<Head(s)>> \o Filter(Tail(s), keep)
    ELSE Filter(Tail(s), keep)

\* ExecJob.parent_deps: the dependencies of the job's tree whose child it is
parent_deps(j) ==
    Filter(TreeDeps(JobTree(j)), {d \in SeqToSet(TreeDeps(JobTree(j))) : d.child = j})

\* ExecJob.orphan
orphan(j) == parent_deps(j) = <<>>

\* ExecJob.child_deps
child_deps(j) ==
    Filter(TreeDeps(JobTree(j)), {d \in SeqToSet(TreeDeps(JobTree(j))) : d.parent = j})

\* ExecJob.parents and ExecJob.children
parents(j) == [k \in DOMAIN parent_deps(j) |-> parent_deps(j)[k].parent]
children(j) == [k \in DOMAIN child_deps(j) |-> child_deps(j)[k].child]

-----------------------------------------------------------------------------
(* The mutable part of the program as one record, so that a method is an   *)
(* operator from the record before the call to the record after it.        *)

Cur == st

Install(s) == st' = s

\* the result of a call of the caller: the operation, its argument, what it
\* returned or raised
Ret(op, arg, val) == [op |-> op, arg |-> arg, val |-> val]

\* gevent Event.set() on a job's event: the flag is set and the links of the
\* event (Tree.run's rawlink of _is_done_event) are scheduled to be called
SetEvent(j, e, s) ==
    [s EXCEPT !.events[j] = @ \cup {e},
              !.notify[JobTree(j)] = @ \/ s.started[JobTree(j)]]

\* ExecJob.state setter
SetState(j, value, s) ==
    IF s.state[j] # value
    THEN SetEvent(j, value, [s EXCEPT !.state[j] = value])
    ELSE s

is_done(j, s) == s.state[j] \in DONE_STATES
is_success(j, s) == s.state[j] \in SUCCESS_STATES
is_defined(j, s) == s.state[j] # STATE_UNDEF

\* a cancel that forgets the jobs that are BLOCKED on resources or RESET
JobCancelIdleOnly(j, s) ==
    IF s.state[j] = STATE_IDLE THEN SetState(j, STATE_CANCELLED, s) ELSE s

\* ExecJob.cancel
JobCancel(j, s) ==
    IF s.state[j] = STATE_RUNNING THEN s
    ELSE IF s.state[j] \in DONE_STATES THEN s
    ELSE SetState(j, STATE_CANCELLED, s)

\* a reset that also clears the counters of the job
JobResetCounts(j, s) ==
    IF s.state[j] # STATE_UNDEF
    THEN SetState(j, STATE_RESET,
             [s EXCEPT !.events[j] = {}, !.execcount[j] = 0, !.failcount[j] = 0])
    ELSE s

\* a reset that does not leave the UNDEF job alone
JobResetAny(j, s) == SetState(j, STATE_RESET, [s EXCEPT !.events[j] = {}])

\* ExecJob.reset
JobReset(j, s) ==
    IF s.state[j] # STATE_UNDEF
    THEN SetState(j, STATE_RESET, [s EXCEPT !.events[j] = {}])
    ELSE s

\* a fresh greenlet of ExecJob._run, not yet scheduled
NewTask(j) == [job |-> j, pc |-> "spawned", idx |-> 0, reserved |-> <<>>, attempt |-> 0]

\* a start without the short circuit of the UNDEF job that has no parents
JobStartSpawn(j, s) ==
    IF s.state[j] = STATE_SUCCESSFULL THEN s
    ELSE [s EXCEPT !.tasks = Append(@, NewTask(j))]

\* ExecJob.start
JobStart(j, s) ==
    IF s.state[j] = STATE_UNDEF /\ orphan(j)
    THEN SetEvent(j, STATE_SUCCESSFULL, SetEvent(j, STATE_RUNNING, s))
    ELSE IF s.state[j] = STATE_SUCCESSFULL THEN s
    ELSE [s EXCEPT !.tasks = Append(@, NewTask(j))]

-----------------------------------------------------------------------------
(* ExecResource *)

\* a release that does not clamp the counter at 0
ReleaseNoClamp(r, s) ==
    IF Avail(r) >= 0 THEN [s EXCEPT !.used[r] = @ - 1] ELSE s

\* ExecResource.release
Release(r, s) ==
    IF Avail(r) >= 0
    THEN [s EXCEPT !.used[r] = IF @ - 1 > 0 THEN @ - 1 ELSE 0]
    ELSE s

\* ExecJob._release_resources
RECURSIVE ReleaseResources(_, _)
ReleaseResources(rs, s) ==
    IF rs = <<>> THEN s
    ELSE ReleaseResources(Tail(rs), Release(Head(rs), s))

-----------------------------------------------------------------------------
(* ExecTree.is_done and ExecTree.cancel, which call each other *)

\* a cancel of the tree that cancels none of its jobs
CancelJobsNone(js, s) == s

\* the loop of ExecTree.cancel over the jobs
RECURSIVE CancelJobs(_, _)
CancelJobs(js, s) ==
    IF js = <<>> THEN s
    ELSE CancelJobs(Tail(js), JobCancel(Head(js), s))

\* an is_done that does not look at waitsuccess
NotDoneAnyEnd(t, s) ==
    \E j \in SeqToSet(TreeJobs(t)) : MustComplete(j) /\ ~is_done(j, s)

\* the job at which the loop of is_done returns False
NotDone(t, s) ==
    \E j \in SeqToSet(TreeJobs(t)) :
        /\ MustComplete(j)
        /\ \/ ~s.cancelled[t] /\ WaitSuccess(t) /\ ~is_success(j, s)
           \/ ~is_done(j, s)

\* an is_success that only looks at the must-complete jobs
TreeIsSuccessMust(t, s) ==
    \A j \in SeqToSet(TreeJobs(t)) : MustComplete(j) => is_success(j, s)

\* ExecTree.is_success
TreeIsSuccess(t, s) == \A j \in SeqToSet(TreeJobs(t)) : is_success(j, s)

RECURSIVE TreeCancel(_, _)
RECURSIVE TreeIsDone(_, _)
RECURSIVE CancelTrees(_, _)

\* a cancel whose loop over the jobs returns after the first job it cancels
TreeCancelOneJob(t, s) ==
    LET live == Filter(TreeJobs(t),
                       {j \in Jobs : s.state[j] \notin DONE_STATES \cup {STATE_RUNNING}})
    IN IF s.cancelled[t] THEN s
       ELSE IF live # <<>> THEN JobCancel(Head(live), s)
       ELSE TreeIsDone(t, CancelTrees(TreeSubtrees(t), [s EXCEPT !.cancelled[t] = TRUE]))

\* ExecTree.cancel
TreeCancel(t, s) ==
    IF s.cancelled[t] THEN s
    ELSE TreeIsDone(t,
            CancelTrees(TreeSubtrees(t),
                CancelJobs(TreeJobs(t), [s EXCEPT !.cancelled[t] = TRUE])))

CancelTrees(ts, s) ==
    IF ts = <<>> THEN s
    ELSE CancelTrees(Tail(ts), TreeCancel(Head(ts), s))

\* ExecTree.is_done
TreeIsDone(t, s) ==
    IF NotDone(t, s) THEN s
    ELSE TreeCancel(t, [s EXCEPT !.done_event[t] = TRUE])

-----------------------------------------------------------------------------
(* ExecTree.run, advance and iterrun *)

RECURSIVE StartJobs(_, _)
StartJobs(js, s) ==
    IF js = <<>> THEN s
    ELSE StartJobs(Tail(js), JobStart(Head(js), s))

\* a run() that does not look at cancelled
TreeRunAlways(t, s) ==
    StartJobs(TreeJobs(t),
        [s EXCEPT !.started[t] = TRUE, !.notify[t] = @ \/ TreeJobs(t) # <<>>])

\* ExecTree.run up to the point where a blocking run suspends: every event of
\* every job is linked (a link on an event that is already set is scheduled at
\* once, and every job has the event of its current state set) and every job
\* is started
TreeRun(t, s) ==
    IF s.cancelled[t] THEN s
    ELSE StartJobs(TreeJobs(t),
            [s EXCEPT !.started[t] = TRUE,
                      !.notify[t] = @ \/ TreeJobs(t) # <<>>])

\* ExecIter.is_exhausted
is_exhausted(t, s) == s.iter_run[t] >= IterLen(t)

RECURSIVE ResetJobs(_, _)
ResetJobs(js, s) ==
    IF js = <<>> THEN s
    ELSE ResetJobs(Tail(js), JobReset(Head(js), s))

\* ExecTree.advance (ExecIter.increment returns run < len(args))
TreeAdvance(t, s) ==
    LET s1 == [s EXCEPT !.done_event[t] = FALSE, !.cancelled[t] = FALSE]
        s2 == IF IterLen(t) # -1 THEN [s1 EXCEPT !.iter_run[t] = @ + 1] ELSE s1
        inc == IF IterLen(t) # -1 THEN s2.iter_run[t] < IterLen(t) ELSE TRUE
    IN IF inc THEN ResetJobs(TreeJobs(t), s2) ELSE s2

-----------------------------------------------------------------------------
(* ExecJob._run, from one suspension point to the next *)

SetTask(i, pc, idx, s) == [s EXCEPT !.tasks[i].pc = pc, !.tasks[i].idx = idx]

\* the greenlet returns
EndTask(i, s) ==
    [s EXCEPT !.tasks[i] = [job |-> @.job, pc |-> "done", idx |-> 0,
                            reserved |-> <<>>, attempt |-> 0]]

\* a _run that ignores the return code of the runner
FinishSuccess(i, rcode, s) ==
    LET j == s.tasks[i].job
        s1 == ReleaseResources(JobResources(j), s)
    IN EndTask(i, SetState(j, STATE_SUCCESSFULL, [s1 EXCEPT !.execcount[j] = @ + 1]))

\* _run from the finally clause on: the resources of the job are released and
\* the return code decides the state
Finish(i, rcode, s) ==
    LET j == s.tasks[i].job
        s1 == ReleaseResources(JobResources(j), s)
        s2 == [s1 EXCEPT !.execcount[j] = @ + 1]
    IN IF rcode = 0
       THEN EndTask(i, SetState(j, STATE_SUCCESSFULL, s2))
       ELSE EndTask(i, SetState(j, STATE_FAILED, [s2 EXCEPT !.failcount[j] = @ + 1]))

RECURSIVE IterRun(_, _, _)
RECURSIVE IterNext(_, _, _)

\* the loop of ExecTree.iterrun at self.run(): a cancelled tree returns from
\* run() at once, any other one starts its jobs and joins done_event
IterRun(i, u, s) ==
    IF s.cancelled[u] THEN IterNext(i, u, s)
    ELSE SetTask(i, "join", 0, TreeRun(u, s))

\* an iterrun whose loop does not stop at an iteration that did not succeed
IterNextNoStop(i, u, s) ==
    IF IterLen(u) = -1
    THEN Finish(i, IF TreeIsSuccess(u, s) THEN 0 ELSE 1, s)
    ELSE LET s1 == TreeAdvance(u, s)
         IN IF is_exhausted(u, s1)
            THEN Finish(i, IF TreeIsSuccess(u, s1) THEN 0 ELSE 1, s1)
            ELSE IterRun(i, u, s1)

\* iterrun after run() has returned, and the rcode _run takes from is_success
IterNext(i, u, s) ==
    IF IterLen(u) = -1 \/ ~TreeIsSuccess(u, s)
    THEN Finish(i, IF TreeIsSuccess(u, s) THEN 0 ELSE 1, s)
    ELSE LET s1 == TreeAdvance(u, s)
         IN IF is_exhausted(u, s1)
            THEN Finish(i, IF TreeIsSuccess(u, s1) THEN 0 ELSE 1, s1)
            ELSE IterRun(i, u, s1)

\* _run from self.state = STATE_RUNNING to the suspension in the runner
EnterRunning(i, s) ==
    LET j == s.tasks[i].job
        s1 == SetState(j, STATE_RUNNING, s)
    IN IF JobPath(j) # None THEN SetTask(i, "popen", 0, s1)
       ELSE IF IterLen(JobSubtree(j)) # -1 /\ is_exhausted(JobSubtree(j), s1)
       THEN Finish(i, IF TreeIsSuccess(JobSubtree(j), s1) THEN 0 ELSE 1, s1)
       ELSE IterRun(i, JobSubtree(j), s1)

\* a _run that goes on to the runner whatever _acquire_resources returns
AcquireReturnRun(i, lastacquire, s) ==
    EnterRunning(i, SetState(s.tasks[i].job, STATE_IDLE,
                    [s EXCEPT !.tasks[i].reserved = <<>>, !.tasks[i].attempt = 0]))

\* the end of _acquire_resources (its locals are gone) and what _run does with
\* its result
AcquireReturn(i, lastacquire, s) ==
    LET j == s.tasks[i].job
        s1 == SetState(j, STATE_IDLE,
                  [s EXCEPT !.tasks[i].reserved = <<>>, !.tasks[i].attempt = 0])
    IN IF lastacquire THEN EnterRunning(i, s1)
       ELSE EndTask(i, SetState(j, STATE_FAILED, s1))

\* the for loop of _acquire_resources from the k-th resource on:
\* ExecResource.reserve takes the resource, or blocks in Event.wait
RECURSIVE ReserveFrom(_, _, _)
ReserveFrom(i, k, s) ==
    LET j == s.tasks[i].job
        r == JobResources(j)[k]
    IN IF k > Len(JobResources(j)) THEN AcquireReturn(i, TRUE, s)
       ELSE IF Avail(r) < 0
       THEN ReserveFrom(i, k + 1, [s EXCEPT !.tasks[i].reserved = Append(@, r)])
       ELSE IF s.used[r] < Avail(r)
       THEN ReserveFrom(i, k + 1, [s EXCEPT !.used[r] = @ + 1,
                                            !.tasks[i].reserved = Append(@, r)])
       ELSE SetTask(i, "reserve", k, s)

\* ExecJob._acquire_resources up to its first suspension
AcquireResources(i, s) ==
    LET j == s.tasks[i].job
    IN IF Len(JobResources(j)) < 1 THEN EnterRunning(i, s)
       ELSE ReserveFrom(i, 1, SetState(j, STATE_BLOCKED, s))

\* _run after _parent_wait
AfterParentWait(i, s) ==
    LET j == s.tasks[i].job
    IN IF s.state[j] = STATE_UNDEF
       THEN EndTask(i, SetEvent(j, STATE_SUCCESSFULL, SetEvent(j, STATE_RUNNING, s)))
       ELSE IF s.state[j] \in DONE_STATES THEN EndTask(i, s)
       ELSE AcquireResources(i, s)

\* a wait for the parent to finish, in whichever state
DepReadyAnyEnd(d, s) == s.events[d.parent] \cap DEPENDENCY_STATES # {}

\* ExecDependency.wait would return at once: the parent's event is set
DepReady(d, s) == d.state \in s.events[d.parent]

\* ExecJob._parent_wait from the k-th dependency on
RECURSIVE ParentWait(_, _, _)
ParentWait(i, k, s) ==
    LET ds == parent_deps(s.tasks[i].job)
    IN IF k > Len(ds) THEN AfterParentWait(i, s)
       ELSE IF DepReady(ds[k], s) THEN ParentWait(i, k + 1, s)
       ELSE SetTask(i, "wait", k, s)

-----------------------------------------------------------------------------
(* ExecTree.validate *)

\* the outcomes of has_defined_anscestors: its two results, and the recursion
\* that never ends, which Python stops with an exception
RecursionError == "RecursionError"

\* a command path that does not exist or is not executable
NoExec == "noexec"

RECURSIVE has_defined_anscestors(_, _, _)
RECURSIVE AnyDefined(_, _, _)

\* ExecJob.has_defined_anscestors; stack is the set of the jobs whose call is
\* not finished: a call for one of them repeats itself for ever
has_defined_anscestors(j, stack, s) ==
    IF j \in stack THEN RecursionError
    ELSE AnyDefined(parents(j), stack \cup {j}, s)

\* any(parent.is_defined() or parent.has_defined_anscestors() for parent in ps)
AnyDefined(ps, stack, s) ==
    IF ps = <<>> THEN "False"
    ELSE IF is_defined(Head(ps), s) THEN "True"
    ELSE LET r == has_defined_anscestors(Head(ps), stack, s)
         IN IF r = "False" THEN AnyDefined(Tail(ps), stack, s) ELSE r

\* stems without the test that the job is defined
StemsAnyState(t, hda, s) ==
    Filter(TreeJobs(t), {j \in SeqToSet(TreeJobs(t)) : hda[j] = "False"})

\* ExecTree.stems, given the result of has_defined_anscestors for every job
stems(t, hda, s) ==
    Filter(TreeJobs(t), {j \in SeqToSet(TreeJobs(t)) : hda[j] = "False" /\ is_defined(j, s)})

RECURSIVE validate_nocycles(_, _, _)
RECURSIVE NoCyclesFrom(_, _, _)

\* ExecTree.validate_nocycles: its result and the visited list it leaves;
\* path is its parameter parents
validate_nocycles(job, visited, path) ==
    IF job \in path THEN [ok |-> FALSE, visited |-> visited]
    ELSE NoCyclesFrom(children(job), visited \cup {job}, path \cup {job})

\* the loop of validate_nocycles over the children
NoCyclesFrom(cs, visited, path) ==
    IF cs = <<>> THEN [ok |-> TRUE, visited |-> visited]
    ELSE LET r == validate_nocycles(Head(cs), visited, path)
         IN IF r.ok THEN NoCyclesFrom(Tail(cs), r.visited, path) ELSE r

\* the loop of validate over the stems
RECURSIVE StemErrors(_, _, _)
StemErrors(ss, t, s) ==
    IF ss = <<>> THEN <<>>
    ELSE LET r == validate_nocycles(Head(ss), {}, {})
             unconnected == {j \in SeqToSet(TreeJobs(t)) : is_defined(j, s) /\ j \notin r.visited}
         IN (IF r.ok THEN <<>> ELSE <<"has cycles">>)
            \o (IF unconnected # {} THEN <<"not connected">> ELSE <<>>)
            \o StemErrors(Tail(ss), t, s)

\* what validate gives: the list of errors, or the exception
Returned(es) == [raised |-> FALSE, errors |-> es]
Raised == [raised |-> TRUE, errors |-> <<>>]

RECURSIVE TreeValidate(_, _)
RECURSIVE JobsValidate(_, _)

\* ExecJob.validate
JobValidate(j, s) ==
    IF JobPath(j) # None /\ JobSubtree(j) # None THEN Returned(<<"both set">>)
    ELSE IF JobPath(j) # None
    THEN IF JobPath(j) = UNDEF_JOB THEN Returned(<<>>)
         ELSE IF JobPath(j) = NoExec THEN Returned(<<"not executable">>)
         ELSE Returned(<<>>)
    ELSE IF JobSubtree(j) # None THEN TreeValidate(JobSubtree(j), s)
    ELSE Returned(<<"must be set">>)

\* the loop of validate over the jobs
JobsValidate(js, s) ==
    IF js = <<>> THEN Returned(<<>>)
    ELSE LET r == JobValidate(Head(js), s)
             rest == JobsValidate(Tail(js), s)
         IN IF r.raised \/ rest.raised THEN Raised
            ELSE Returned(r.errors \o rest.errors)

\* ExecTree.validate
TreeValidate(t, s) ==
    LET hda == [j \in SeqToSet(TreeJobs(t)) |-> has_defined_anscestors(j, {}, s)]
        ss == stems(t, hda, s)
        jobs == JobsValidate(TreeJobs(t), s)
    IN IF \E j \in SeqToSet(TreeJobs(t)) : hda[j] = RecursionError THEN Raised
       ELSE IF jobs.raised THEN Raised
       ELSE Returned(
              (IF Len(ss) = 0 THEN <<"empty">>
               ELSE IF Len(ss) > 1 THEN <<"multiple stems">> ELSE <<>>)
              \o StemErrors(ss, t, s)
              \o jobs.errors
              \o (IF IterLen(t) # -1 /\ IterLen(t) < 1 THEN <<"iterator">> ELSE <<>>))

-----------------------------------------------------------------------------
(* The trees the model runs *)

NoRes == [j \in Jobs |-> <<>>]
AllCmd == [j \in Jobs |-> "cmd"]
AllMust == [j \in Jobs |-> TRUE]
Cap(a1, a2) == [r \in Resources |-> IF r = "R1" THEN a1 ELSE a2]

\* one tree T with the jobs A, B and C
Single(ds, jp, rs, mc, av, ws) ==
    [trees |-> {"T"},
     jobs |-> [t \in Trees |-> IF t = "T" THEN <<"A", "B", "C">> ELSE <<>>],
     deps |-> [t \in Trees |-> IF t = "T" THEN ds ELSE <<>>],
     subtrees |-> [t \in Trees |-> <<>>],
     tree |-> [j \in Jobs |-> "T"],
     jobpath |-> jp,
     subtree |-> [j \in Jobs |-> None],
     resources |-> rs,
     mustcomplete |-> mc,
     avail |-> av,
     waitsuccess |-> [t \in Trees |-> ws],
     iterlen |-> [t \in Trees |-> -1]]

\* the tree T with the job A, which delegates to the sub-tree U with the jobs
\* B and C; n is the number of arguments of U's iterator, -1 without iterator
Nested(ds, jp, mc, n) ==
    [trees |-> {"T", "U"},
     jobs |-> [t \in Trees |-> IF t = "T" THEN <<"A">> ELSE <<"B", "C">>],
     deps |-> [t \in Trees |-> IF t = "T" THEN <<>> ELSE ds],
     subtrees |-> [t \in Trees |-> IF t = "T" THEN <<"U">> ELSE <<>>],
     tree |-> [j \in Jobs |-> IF j = "A" THEN "T" ELSE "U"],
     jobpath |-> [j \in Jobs |-> IF j = "A" THEN None ELSE jp[j]],
     subtree |-> [j \in Jobs |-> IF j = "A" THEN "U" ELSE None],
     resources |-> NoRes,
     mustcomplete |-> mc,
     avail |-> Cap(1, 1),
     waitsuccess |-> [t \in Trees |-> FALSE],
     iterlen |-> [t \in Trees |-> IF t = "U" THEN n ELSE -1]]

\* the tree T with the jobs A, B and C, where A delegates to the sub-tree U,
\* which has no job
NestedEmpty(ds, mc) ==
    [trees |-> {"T", "U"},
     jobs |-> [t \in Trees |-> IF t = "T" THEN <<"A", "B", "C">> ELSE <<>>],
     deps |-> [t \in Trees |-> IF t = "T" THEN ds ELSE <<>>],
     subtrees |-> [t \in Trees |-> IF t = "T" THEN <<"U">> ELSE <<>>],
     tree |-> [j \in Jobs |-> "T"],
     jobpath |-> [j \in Jobs |-> IF j = "A" THEN None ELSE "cmd"],
     subtree |-> [j \in Jobs |-> IF j = "A" THEN "U" ELSE None],
     resources |-> NoRes,
     mustcomplete |-> mc,
     avail |-> Cap(1, 1),
     waitsuccess |-> [t \in Trees |-> FALSE],
     iterlen |-> [t \in Trees |-> -1]]

DepLists ==
    { <<Dep("A", "B", s1), Dep("B", "C", s2)>> : s1, s2 \in DEPENDENCY_STATES }
    \cup { <<Dep("A", "C", STATE_SUCCESSFULL), Dep("B", "C", s)>> : s \in DEPENDENCY_STATES }

JobPaths == { [AllCmd EXCEPT !["A"] = a] : a \in {"cmd", UNDEF_JOB} }

MustCompletes == { AllMust, [AllMust EXCEPT !["C"] = FALSE], [j \in Jobs |-> FALSE] }

\* trees with dependencies and no resources
DepConfigs ==
    { Single(ds, jp, NoRes, mc, Cap(1, 1), ws) :
        ds \in DepLists, jp \in JobPaths, mc \in MustCompletes, ws \in BOOLEAN }

ResLists ==
    { [NoRes EXCEPT !["A"] = <<"R1", "R2">>, !["B"] = <<"R2", "R1">>],
      [NoRes EXCEPT !["A"] = <<"R1", "R2">>, !["B"] = <<"R1">>, !["C"] = <<"R1">>],
      [NoRes EXCEPT !["A"] = <<"R1", "R2">>, !["B"] = <<"R2">>, !["C"] = <<"R1">>] }

Avails == { Cap(1, 1), Cap(1, 0), Cap(2, 1), Cap(1, -1) }

\* trees with resources: without dependencies, and with B waiting for A
ResConfigs ==
    { Single(ds, AllCmd, rs, AllMust, av, FALSE) :
        ds \in {<<>>, <<Dep("A", "B", STATE_FAILED)>>}, rs \in ResLists, av \in Avails }

SubConfigs ==
    { Nested(ds, jp, AllMust, n) :
        ds \in {<<>>, <<Dep("B", "C", STATE_SUCCESSFULL)>>},
        jp \in {AllCmd, [AllCmd EXCEPT !["B"] = UNDEF_JOB]},
        n \in {-1, 0, 1, 2} }

\* a sub-tree with waitsuccess set, under a job that need not complete
SubWaitConfigs ==
    { [Nested(<<>>, AllCmd, mc, -1) EXCEPT !.waitsuccess["U"] = TRUE] :
        mc \in {[AllMust EXCEPT !["A"] = FALSE], [j \in Jobs |-> FALSE]} }

\* a sub-tree without jobs
EmptyConfigs ==
    { NestedEmpty(<<Dep("B", "C", STATE_SUCCESSFULL)>>, mc) :
        mc \in {AllMust, [j \in Jobs |-> FALSE]} }

\* a sub-tree with a job that need not complete
SubOptConfigs ==
    { Nested(<<>>, AllCmd, [AllMust EXCEPT !["C"] = FALSE], n) : n \in {-1, 1} }

Configs ==
    DepConfigs \cup ResConfigs \cup SubConfigs \cup EmptyConfigs \cup SubWaitConfigs
    \cup SubOptConfigs

\* ExecJob.__init__: the state is IDLE, and UNDEF when the jobpath is "-"
InitState(c, j) == IF c.jobpath[j] = UNDEF_JOB THEN STATE_UNDEF ELSE STATE_IDLE

InitWith(cs) ==
    /\ cfg \in cs
    /\ st = [state |-> [j \in Jobs |-> InitState(cfg, j)],
             events |-> [j \in Jobs |-> {STATE_IDLE, InitState(cfg, j)}],
             used |-> [r \in Resources |-> 0],
             cancelled |-> [t \in Trees |-> FALSE],
             done_event |-> [t \in Trees |-> FALSE],
             started |-> [t \in Trees |-> FALSE],
             iter_run |-> [t \in Trees |-> 0],
             notify |-> [t \in Trees |-> FALSE],
             tasks |-> <<>>,
             execcount |-> [j \in Jobs |-> 0],
             failcount |-> [j \in Jobs |-> 0],
             errors |-> None,
             ret |-> [op |-> None, arg |-> None, val |-> None],
             reruns |-> 0,
             calls |-> 0]
    /\ main = "init"

Init == InitWith(Configs)

-----------------------------------------------------------------------------
(* The trees the model validates *)

\* the dependencies add_dep accepts between the jobs js: parent and child
\* differ
Edges(js) == {Dep(e[1], e[2], STATE_SUCCESSFULL) : e \in {x \in js \X js : x[1] # x[2]}}

\* the number of dependencies of a tree to validate
MaxDeps == 3

\* the lists of dependencies add_dep can build: no dependency twice
DepSeqs(js) ==
    UNION { {ds \in [1..n -> Edges(js)] : \A a, b \in 1..n : a # b => ds[a] # ds[b]} :
            n \in 0..MaxDeps }

Runners == {"cmd", UNDEF_JOB, NoExec, None}

\* the tree T with the jobs js (the other jobs are in no tree), each with a
\* command path or none, and an iterator of n arguments
ValSingle(js, ds, jp, n) ==
    [trees |-> {"T"},
     jobs |-> [t \in Trees |-> IF t = "T" THEN js ELSE <<>>],
     deps |-> [t \in Trees |-> IF t = "T" THEN ds ELSE <<>>],
     subtrees |-> [t \in Trees |-> <<>>],
     tree |-> [j \in Jobs |-> IF j \in SeqToSet(js) THEN "T" ELSE None],
     jobpath |-> jp,
     subtree |-> [j \in Jobs |-> None],
     resources |-> NoRes,
     mustcomplete |-> AllMust,
     avail |-> Cap(1, 1),
     waitsuccess |-> [t \in Trees |-> FALSE],
     iterlen |-> [t \in Trees |-> IF t = "T" THEN n ELSE -1]]

\* the tree T with the job A, which delegates to the sub-tree U with the jobs
\* B and C
ValNested(ds, jp, n) ==
    [Nested(ds, jp, AllMust, n) EXCEPT !.jobpath = [jp EXCEPT !["A"] = None]]

\* the trees to validate: three jobs with any runners, three jobs with an
\* iterator, the two jobs A and B, and a tree with a sub-tree
ValInit ==
    \/ \E ds \in DepSeqs({"A", "B", "C"}), jp \in [Jobs -> Runners] :
          InitWith({ValSingle(<<"A", "B", "C">>, ds, jp, -1)})
    \/ \E ds \in DepSeqs({"A", "B", "C"}), jp \in [Jobs -> {"cmd", UNDEF_JOB}], n \in {0, 1} :
          InitWith({ValSingle(<<"A", "B", "C">>, ds, jp, n)})
    \/ \E ds \in DepSeqs({"A", "B"}), jp \in [Jobs -> Runners \ {None}] :
          InitWith({ValSingle(<<"A", "B">>, ds, jp, -1)})
    \/ \E ds \in DepSeqs({"B", "C"}), jp \in [Jobs -> Runners], n \in {-1, 0, 1} :
          InitWith({ValNested(ds, jp, n)})

\* validate() of the top-level tree, before it is run
Validate ==
    /\ main = "init"
    /\ Install([Cur EXCEPT !.errors = TreeValidate(Top, Cur)])
    /\ main' = "validated"
    /\ UNCHANGED cfg

ValSpec == ValInit /\ [][Validate]_vars

-----------------------------------------------------------------------------
(* ExecIter *)

\* the number of arguments of an iterator
MaxArgs == 3

\* how far past the end of its arguments the cursor of an iterator is moved
MaxPast == 1

\* the exception of a list index out of range
IndexError == "IndexError"

ArgValues == {"x", "y", "z"}

\* the tree U with an iterator whose arguments are args
IterConfig(args) ==
    LET c == Nested(<<>>, AllCmd, AllMust, Len(args))
    IN [f \in DOMAIN c \cup {"args"} |-> IF f = "args" THEN args ELSE c[f]]

\* the arguments of the iterator of tree t
IterArgs(t) == cfg.args

\* ExecIter.argument; the lists of Python start at 0, the sequences here at 1
argument(t, s) ==
    IF Len(IterArgs(t)) <= 0 THEN ""
    ELSE IF s.iter_run[t] > Len(IterArgs(t)) THEN IterArgs(t)[Len(IterArgs(t))]
    ELSE IF s.iter_run[t] < Len(IterArgs(t)) THEN IterArgs(t)[s.iter_run[t] + 1]
    ELSE IndexError

\* ExecIter.increment
increment(t, s) == [s EXCEPT !.iter_run[t] = @ + 1]

\* a caller reads the argument of the iterator of U
IterArgument ==
    /\ Install([Cur EXCEPT !.ret = Ret("argument", "U", argument("U", Cur))])
    /\ UNCHANGED <<cfg, main>>

\* a caller increments the iterator of U
IterIncrement ==
    /\ iter_run["U"] < Len(IterArgs("U")) + MaxPast
    /\ Install([increment("U", Cur) EXCEPT
                   !.ret = Ret("increment", "U",
                             IF iter_run["U"] + 1 < Len(IterArgs("U")) THEN "True" ELSE "False")])
    /\ UNCHANGED <<cfg, main>>

IterInit ==
    \E n \in 0..MaxArgs : \E args \in [1..n -> ArgValues] : InitWith({IterConfig(args)})

IterSpec == IterInit /\ [][IterArgument \/ IterIncrement]_vars

-----------------------------------------------------------------------------
(* The steps of the greenlets *)

Task(i) == tasks[i]

\* the hub switches to a spawned _run greenlet
TaskStart(i) ==
    /\ Task(i).pc = "spawned"
    /\ Install(ParentWait(i, 1, Cur))
    /\ UNCHANGED <<cfg, main>>

\* ExecDependency.wait returns: the parent's event has been set
DepWake(i) ==
    /\ Task(i).pc = "wait"
    /\ DepReady(parent_deps(Task(i).job)[Task(i).idx], Cur)
    /\ Install(ParentWait(i, Task(i).idx + 1, Cur))
    /\ UNCHANGED <<cfg, main>>

\* ExecResource.reserve leaves its wait loop: used < avail
ReserveWake(i) ==
    LET r == JobResources(Task(i).job)[Task(i).idx]
    IN /\ Task(i).pc = "reserve"
       /\ used[r] < Avail(r)
       /\ Install(ReserveFrom(i, Task(i).idx + 1,
              [Cur EXCEPT !.used[r] = @ + 1, !.tasks[i].reserved = Append(@, r)]))
       /\ UNCHANGED <<cfg, main>>

\* the gevent.Timeout of reserve fires: reserve returns False, the attempt has
\* failed, what is in reserved is released and the greenlet sleeps
ReserveTimeout(i) ==
    /\ Task(i).pc = "reserve"
    /\ Install(SetTask(i, "backoff", 0,
           ReleaseResources(Task(i).reserved,
               [Cur EXCEPT !.tasks[i].attempt = @ + 1])))
    /\ UNCHANGED <<cfg, main>>

\* a backoff after which the acquisition is retried whatever the attempts
BackoffWakeRetry(i) ==
    /\ Task(i).pc = "backoff"
    /\ Install(ReserveFrom(i, 1, Cur))
    /\ UNCHANGED <<cfg, main>>

\* the backoff sleep of _acquire_resources ends
BackoffWake(i) ==
    /\ Task(i).pc = "backoff"
    /\ Install(IF MaxAttempts > 0 /\ Task(i).attempt >= MaxAttempts
               THEN AcquireReturn(i, FALSE, Cur)
               ELSE ReserveFrom(i, 1, Cur))
    /\ UNCHANGED <<cfg, main>>

\* the command of the job exits with rcode
PopenExit(i, rcode) ==
    /\ Task(i).pc = "popen"
    /\ Install(Finish(i, rcode, Cur))
    /\ UNCHANGED <<cfg, main>>

\* the join of the sub-tree's run() returns: done_event is set
JoinWake(i) ==
    /\ Task(i).pc = "join"
    /\ done_event[JobSubtree(Task(i).job)]
    /\ Install(IterNext(i, JobSubtree(Task(i).job), Cur))
    /\ UNCHANGED <<cfg, main>>

\* the hub calls the links of the events that were set: ExecTree._is_done_event
IsDoneEvent(t) ==
    /\ notify[t]
    /\ Install(TreeIsDone(t, [Cur EXCEPT !.notify[t] = FALSE]))
    /\ UNCHANGED <<cfg, main>>

\* ExecTree.run of the top-level tree, blocking or not
Run(blocking) ==
    /\ main = "init"
    /\ Install(TreeRun(Top, Cur))
    /\ main' = IF blocking /\ ~cancelled[Top] THEN "join" ELSE "returned"
    /\ UNCHANGED cfg

\* the blocking run() returns from join()
RunReturn ==
    /\ main = "join"
    /\ done_event[Top]
    /\ main' = "returned"
    /\ UNCHANGED <<cfg, st>>

\* the timeout of the blocking run() expires
RunTimeout ==
    /\ main = "join"
    /\ Install(TreeCancel(Top, Cur))
    /\ main' = "returned"
    /\ UNCHANGED cfg

\* ExecTree.cancel called on a tree by another greenlet
Cancel(t) ==
    /\ ~cancelled[t]
    /\ Install(TreeCancel(t, Cur))
    /\ UNCHANGED <<cfg, main>>

TaskIds == DOMAIN tasks

Next ==
    \/ \E i \in TaskIds : TaskStart(i)
    \/ \E i \in TaskIds : DepWake(i)
    \/ \E i \in TaskIds : ReserveWake(i)
    \/ \E i \in TaskIds : ReserveTimeout(i)
    \/ \E i \in TaskIds : BackoffWake(i)
    \/ \E i \in TaskIds, rcode \in {0, 1} : PopenExit(i, rcode)
    \/ \E i \in TaskIds : JoinWake(i)
    \/ \E t \in cfg.trees : IsDoneEvent(t)
    \/ \E b \in BOOLEAN : Run(b)
    \/ RunReturn
    \/ RunTimeout
    \/ \E t \in cfg.trees : Cancel(t)

Spec == Init /\ [][Next]_vars

\* one step of the _run greenlet i, whichever suspension point it is at
TaskStep(i) ==
    /\ i \in TaskIds
    /\ \/ TaskStart(i)
       \/ DepWake(i)
       \/ ReserveWake(i)
       \/ ReserveTimeout(i)
       \/ BackoffWake(i)
       \/ \E rcode \in {0, 1} : PopenExit(i, rcode)
       \/ JoinWake(i)

\* the greenlets a run of the model can spawn: one per job and run of its tree
TaskRange == 1..(1 + 2 * 3)

\* the scheduling gevent guarantees: the hub runs every greenlet that can run
\* and every link it has scheduled, and its timers fire; for the runners, the
\* assumption that every command exits
Fairness ==
    /\ \A i \in TaskRange : WF_vars(TaskStep(i))
    /\ \A t \in Trees : WF_vars(t \in cfg.trees /\ IsDoneEvent(t))
    /\ WF_vars(RunReturn)

\* a few trees for the properties of whole behaviours: a chain of
\* dependencies, two jobs that contend for two resources, a sub-tree
FairConfigs ==
    { Single(<<Dep("A", "B", STATE_SUCCESSFULL), Dep("B", "C", s)>>,
             jp, NoRes, mc, Cap(1, 1), ws) :
        s \in DEPENDENCY_STATES, jp \in JobPaths,
        mc \in {AllMust, [AllMust EXCEPT !["C"] = FALSE]}, ws \in BOOLEAN }
    \cup { Single(<<>>, AllCmd,
                  [NoRes EXCEPT !["A"] = <<"R1", "R2">>, !["B"] = <<"R2", "R1">>],
                  AllMust, Cap(1, 1), FALSE) }
    \cup { Single(<<Dep("A", "B", STATE_FAILED), Dep("B", "C", STATE_SUCCESSFULL)>>,
                  AllCmd, NoRes, AllMust, Cap(1, 1), ws) : ws \in BOOLEAN }
    \cup { Nested(<<Dep("B", "C", STATE_SUCCESSFULL)>>, AllCmd, AllMust, n) : n \in {-1, 2} }
    \cup EmptyConfigs

FairSpec == InitWith(FairConfigs) /\ [][Next]_vars /\ Fairness

\* a blocking run() with a finite timeout: the timer of gevent.Timeout fires
\* unless run() has returned before
TimedSpec == InitWith(FairConfigs) /\ [][Next]_vars /\ Fairness /\ WF_vars(RunTimeout)

-----------------------------------------------------------------------------
(* The calls of a caller on a job and on the tree, while the tree runs *)

\* the exception of the jobpath setter
JobError == "JobError"

\* a setter that does not look at the sub-tree of the job
JobpathSetterNoSubtree(j, value, s) ==
    IF s.state[j] \in PRESTART_STATES
    THEN [jobpath |-> value, st |-> [s EXCEPT !.ret = Ret("jobpath", j, "ok")]]
    ELSE [jobpath |-> JobPath(j), st |-> [s EXCEPT !.ret = Ret("jobpath", j, JobError)]]

\* the jobpath setter of ExecJob: the jobpath of the job after the call, and
\* the rest of the state
jobpath_setter(j, value, s) ==
    IF JobSubtree(j) # None /\ value # None
    THEN [jobpath |-> JobPath(j), st |-> [s EXCEPT !.ret = Ret("jobpath", j, JobError)]]
    ELSE IF s.state[j] \in PRESTART_STATES
    THEN [jobpath |-> value,
          st |-> [(IF value = UNDEF_JOB /\ s.state[j] = STATE_IDLE
                   THEN SetState(j, STATE_UNDEF, s) ELSE s)
                  EXCEPT !.ret = Ret("jobpath", j, "ok")]]
    ELSE [jobpath |-> JobPath(j), st |-> [s EXCEPT !.ret = Ret("jobpath", j, JobError)]]

\* the jobs the caller has a reference to
ApiJobs == {j \in {"A"} : JobTree(j) # None}

\* the number of calls the caller makes on the jobs
MaxCalls == 2

\* one more call of the caller
Called(s) == [s EXCEPT !.calls = @ + 1]

\* job.jobpath = value
SetJobpath(j, value) ==
    /\ calls < MaxCalls
    /\ cfg' = [cfg EXCEPT !.jobpath[j] = jobpath_setter(j, value, Cur).jobpath]
    /\ Install(Called(jobpath_setter(j, value, Cur).st))
    /\ UNCHANGED main

\* job.cancel() and what it returns
CancelJob(j) ==
    /\ calls < MaxCalls
    /\ Install([Called(JobCancel(j, Cur)) EXCEPT
                   !.ret = Ret("cancel", j,
                               IF state[j] = STATE_RUNNING THEN "False" ELSE "True")])
    /\ UNCHANGED <<cfg, main>>

\* job.reset()
ResetJob(j) ==
    /\ calls < MaxCalls
    /\ Install([Called(JobReset(j, Cur)) EXCEPT !.ret = Ret("reset", j, None)])
    /\ UNCHANGED <<cfg, main>>

\* the number of times run() is called again on the top-level tree
MaxReruns == 1

\* run() of the top-level tree, called after a first run() has returned
RunAgain(blocking) ==
    /\ main = "returned"
    /\ reruns < MaxReruns
    /\ Install([TreeRun(Top, Cur) EXCEPT !.reruns = @ + 1,
                                         !.ret = Ret("run", Top, None)])
    /\ main' = IF blocking /\ ~cancelled[Top] THEN "join" ELSE "returned"
    /\ UNCHANGED cfg

\* the tree T with the jobs A and B, which contend for the resource R1; A is
\* built by ExecJob(jobpath=jp, subtree=sub), and when the constructor raises
\* there is no job A. The tree U, with the job C and an iterator of n
\* arguments, is the sub-tree of A or is not part of T.
ApiConfig(jp, sub, n) ==
    LET built == jp = None \/ sub = None
    IN [trees |-> IF built /\ sub # None THEN {"T", "U"} ELSE {"T"},
        jobs |-> [t \in Trees |-> IF t = "U" THEN <<"C">>
                                  ELSE IF built THEN <<"A", "B">> ELSE <<"B">>],
        deps |-> [t \in Trees |-> <<>>],
        subtrees |-> [t \in Trees |-> IF t = "T" /\ built /\ sub # None THEN <<"U">> ELSE <<>>],
        tree |-> [j \in Jobs |-> IF j = "C" THEN "U"
                                 ELSE IF j = "A" /\ ~built THEN None ELSE "T"],
        jobpath |-> [j \in Jobs |-> IF j = "A" THEN (IF built THEN jp ELSE None) ELSE "cmd"],
        subtree |-> [j \in Jobs |-> IF j = "A" /\ built THEN sub ELSE None],
        resources |-> [NoRes EXCEPT !["A"] = <<"R1">>, !["B"] = <<"R1">>],
        mustcomplete |-> AllMust,
        avail |-> Cap(1, 1),
        waitsuccess |-> [t \in Trees |-> FALSE],
        iterlen |-> [t \in Trees |-> IF t = "U" THEN n ELSE -1]]

\* ExecJob.__init__ with a jobpath, with a sub-tree, or with both (the
\* jobpath setter it calls raises JobError and no job is built)
ApiInit ==
    \E jp \in {"cmd", UNDEF_JOB, None}, sub \in {None, "U"} :
        /\ jp # None \/ sub # None
        /\ InitWith({ ApiConfig(jp, sub, -1),
                      [ApiConfig(jp, sub, -1) EXCEPT
                          !.deps["T"] = IF jp = None \/ sub = None
                                        THEN <<Dep("B", "A", STATE_SUCCESSFULL)>> ELSE <<>>] })

ApiNext ==
    \/ Next
    \/ \E j \in ApiJobs, value \in {"cmd", UNDEF_JOB} : SetJobpath(j, value)
    \/ \E j \in ApiJobs : CancelJob(j)
    \/ \E j \in ApiJobs : ResetJob(j)

ApiSpec == ApiInit /\ [][ApiNext]_vars

\* a tree that is run, and on which run() is called a second time
RerunNext ==
    \/ Next
    \/ \E b \in BOOLEAN : RunAgain(b)

\* small trees to run twice: the job B alone, the jobs A and B with B waiting
\* for A, and the job A alone with the iterated sub-tree U
RerunConfigs ==
    { ApiConfig("cmd", "U", -1),
      [ApiConfig("cmd", None, -1) EXCEPT !.resources = NoRes,
                                        !.deps["T"] = <<Dep("A", "B", STATE_SUCCESSFULL)>>],
      [ApiConfig(None, "U", 2) EXCEPT !.resources = NoRes, !.jobs["T"] = <<"A">>,
                                      !.tree["B"] = None] }

RerunSpec == InitWith(RerunConfigs) /\ [][RerunNext]_vars

\* the jobs of the calls of a caller who looks after the UNDEF jobs: the job
\* A and every job that is in UNDEF
UndefApiJobs == ApiJobs \cup {j \in Jobs : JobTree(j) # None /\ state[j] = STATE_UNDEF}

\* the job A alone with the iterated sub-tree U, whose job B is UNDEF
UndefConfigs ==
    { Nested(ds, [AllCmd EXCEPT !["B"] = UNDEF_JOB], AllMust, 2) :
        ds \in {<<>>, <<Dep("C", "B", STATE_SUCCESSFULL)>>} }

UndefNext ==
    \/ Next
    \/ \E j \in UndefApiJobs, value \in {"cmd", UNDEF_JOB} : SetJobpath(j, value)
    \/ \E j \in UndefApiJobs : CancelJob(j)
    \/ \E j \in UndefApiJobs : ResetJob(j)

\* the trees of ApiSpec and the iterated sub-tree, run while the caller sets
\* the jobpath of jobs, cancels them and resets them
UndefSpec == (ApiInit \/ InitWith(UndefConfigs)) /\ [][UndefNext]_vars

-----------------------------------------------------------------------------
(* Building a tree: ExecTree.add_job and ExecTree.add_dep *)

\* the number of add_job and add_dep calls of a build
MaxBuild == 5

JobDefinedError == "JobDefinedError"
TreeDefinedError == "TreeDefinedError"
JobUndefinedError == "JobUndefinedError"
DependencyError == "DependencyError"
UnknownStateError == "UnknownStateError"
AttributeError == "AttributeError"
BuildErrors ==
    {JobDefinedError, TreeDefinedError, JobUndefinedError, DependencyError,
     UnknownStateError, AttributeError}

\* the names of the jobs (two of them have the same name, see BuildConfig)
JobNames == {"a", "b"}

\* two empty trees and three jobs that belong to no tree yet; C delegates to
\* the tree U
BuildConfig ==
    LET c == [ValSingle(<<>>, <<>>, AllCmd, -1) EXCEPT
                 !.trees = Trees,
                 !.jobpath["C"] = None,
                 !.subtree["C"] = "U"]
    IN [f \in DOMAIN c \cup {"name"} |->
           IF f = "name" THEN [j \in Jobs |-> IF j = "B" THEN "b" ELSE "a"] ELSE c[f]]

\* ExecTree.find_job on the tree t of c: the first job of the list with the
\* name, the default without one
RECURSIVE find_job(_, _, _, _)
find_job(js, needle, default, c) ==
    IF js = <<>> THEN default
    ELSE IF c.name[Head(js)] = needle THEN Head(js)
    ELSE find_job(Tail(js), needle, default, c)

\* what a call on the tree gives: the tree after it and the value it returned
\* or the exception it raised
BuildResult(c, val) == [cfg |-> c, val |-> val]

\* ExecTree.add_job
add_job(t, job, c) ==
    IF find_job(c.jobs[t], c.name[job], None, c) # None THEN BuildResult(c, JobDefinedError)
    ELSE LET c1 == IF c.subtree[job] # None /\ c.subtree[job] \notin SeqToSet(c.subtrees[t])
                   THEN [c EXCEPT !.subtrees[t] = Append(@, c.subtree[job])]
                   ELSE c
         IN IF c1.tree[job] # None THEN BuildResult(c1, TreeDefinedError)
            ELSE BuildResult([c1 EXCEPT !.tree[job] = t, !.jobs[t] = Append(@, job)], "ok")

\* an add_dep that does not look for the dependency in the list
AddDepAlways(t, parent, child, dstate, xml, c) ==
    LET p == IF parent \in Jobs THEN parent ELSE find_job(c.jobs[t], parent, parent, c)
        k == IF child \in Jobs THEN child ELSE find_job(c.jobs[t], child, child, c)
    IN IF p \notin Jobs \/ k \notin Jobs THEN BuildResult(c, JobUndefinedError)
       ELSE IF k \notin SeqToSet(c.jobs[t]) \/ p \notin SeqToSet(c.jobs[t])
       THEN BuildResult(c, JobUndefinedError)
       ELSE IF p = k THEN BuildResult(c, DependencyError)
       ELSE IF dstate \notin STATES THEN BuildResult(c, UnknownStateError)
       ELSE BuildResult([c EXCEPT !.deps[t] = Append(@, Dep(p, k, dstate))], "ok")

\* ExecTree.add_dep; parent and child are jobs or names of jobs, and names
\* when the dependency is read from xml
add_dep(t, parent, child, dstate, xml, c) ==
    LET p == IF parent \in Jobs THEN parent ELSE find_job(c.jobs[t], parent, parent, c)
        k == IF child \in Jobs THEN child ELSE find_job(c.jobs[t], child, child, c)
    IN IF p \notin Jobs \/ k \notin Jobs THEN BuildResult(c, JobUndefinedError)
       ELSE IF k \notin SeqToSet(c.jobs[t]) \/ p \notin SeqToSet(c.jobs[t])
       THEN BuildResult(c, JobUndefinedError)
       ELSE IF p = k THEN BuildResult(c, DependencyError)
       ELSE IF \A d \in SeqToSet(c.deps[c.tree[k]]) : ~(d.child = k /\ d.parent = p)
       THEN IF dstate \notin STATES THEN BuildResult(c, UnknownStateError)
            ELSE BuildResult([c EXCEPT !.deps[t] = Append(@, Dep(p, k, dstate))], "ok")
       ELSE IF xml THEN BuildResult(c, AttributeError)
       ELSE BuildResult(c, None)

\* a caller adds a job to a tree
AddJob(t, j) ==
    /\ main = "build"
    /\ calls < MaxBuild
    /\ cfg' = add_job(t, j, cfg).cfg
    /\ Install([Cur EXCEPT !.ret = Ret("add_job", t, add_job(t, j, cfg).val),
                           !.calls = @ + 1])
    /\ UNCHANGED main

\* a caller adds a dependency to a tree
AddDep(t, parent, child, dstate, xml) ==
    /\ main = "build"
    /\ calls < MaxBuild
    /\ xml => parent \notin Jobs /\ child \notin Jobs
    /\ cfg' = add_dep(t, parent, child, dstate, xml, cfg).cfg
    /\ Install([Cur EXCEPT !.ret = Ret("add_dep", t, add_dep(t, parent, child, dstate, xml, cfg).val),
                           !.calls = @ + 1])
    /\ UNCHANGED main

BuildInit ==
    /\ cfg = BuildConfig
    /\ st = [state |-> [j \in Jobs |-> STATE_IDLE],
             events |-> [j \in Jobs |-> {STATE_IDLE}],
             used |-> [r \in Resources |-> 0],
             cancelled |-> [t \in Trees |-> FALSE],
             done_event |-> [t \in Trees |-> FALSE],
             started |-> [t \in Trees |-> FALSE],
             iter_run |-> [t \in Trees |-> 0],
             notify |-> [t \in Trees |-> FALSE],
             tasks |-> <<>>,
             execcount |-> [j \in Jobs |-> 0],
             failcount |-> [j \in Jobs |-> 0],
             errors |-> None,
             ret |-> [op |-> None, arg |-> None, val |-> None],
             reruns |-> 0,
             calls |-> 0]
    /\ main = "build"

BuildNext ==
    \/ \E t \in Trees, j \in Jobs : AddJob(t, j)
    \/ \E t \in Trees, parent \in Jobs \cup JobNames \cup {"zz"},
          child \in Jobs \cup JobNames \cup {"zz"},
          dstate \in DEPENDENCY_STATES \cup {"UNKNOWN"}, xml \in BOOLEAN :
          AddDep(t, parent, child, dstate, xml)

BuildSpec == BuildInit /\ [][BuildNext]_vars

-----------------------------------------------------------------------------
(* Properties *)

Max(a, b) == IF a > b THEN a ELSE b

RECURSIVE Count(_, _)
Count(rs, r) ==
    IF rs = <<>> THEN 0
    ELSE (IF Head(rs) = r THEN 1 ELSE 0) + Count(Tail(rs), r)

\* the reservations of r a greenlet has made with reserve() and not released:
\* all of the job's resources while its runner runs, the first idx - 1 of them
\* while it is blocked in the reserve of the idx-th, none in the backoff sleep
Held(i, r) ==
    LET rs == JobResources(Task(i).job)
    IN IF Task(i).pc \in {"popen", "join"} THEN Count(rs, r)
       ELSE IF Task(i).pc = "reserve" THEN Count(SubSeq(rs, 1, Task(i).idx - 1), r)
       ELSE 0

RECURSIVE SumHeld(_, _)
SumHeld(is, r) ==
    IF is = {} THEN 0
    ELSE LET i == CHOOSE x \in is : TRUE
         IN Held(i, r) + SumHeld(is \ {i}, r)

\* C1: a job enters RUNNING only when, for each of its inbound dependencies,
\* the parent's event of the required state has been set
C1_RunningAfterParents ==
    [][\A j \in Jobs :
          state[j] # STATE_RUNNING /\ state'[j] = STATE_RUNNING
          => \A k \in DOMAIN parent_deps(j) :
                 parent_deps(j)[k].state \in events[parent_deps(j)[k].parent]]_vars

C1_Witness ==
    \E j \in Jobs : state[j] = STATE_RUNNING /\ Len(parent_deps(j)) = 2

\* C2: the jobs that are RUNNING and list a bounded resource are never more
\* than the capacity of the resource
C2_RunningWithinCapacity ==
    \A r \in Resources :
        Avail(r) >= 0 =>
            Cardinality({j \in Jobs : state[j] = STATE_RUNNING
                                      /\ r \in SeqToSet(JobResources(j))}) <= Avail(r)

\* C3: 0 <= used <= max(avail, 0) for every resource
C3_UsedInRange ==
    \A r \in Resources : 0 <= used[r] /\ used[r] <= Max(Avail(r), 0)

C3_Witness ==
    \E r \in Resources, i \in TaskIds :
        /\ Avail(r) > 0 /\ used[r] = Avail(r)
        /\ Task(i).pc = "backoff" /\ Task(i).attempt = MaxAttempts
        /\ r \in SeqToSet(Task(i).reserved)

\* C4: once the greenlet of a job has ended, the used counter of every bounded
\* resource is the number of reservations the other greenlets hold
C4_NoNetChange ==
    \A i \in TaskIds :
        Task(i).pc = "done" =>
            \A r \in Resources :
                Avail(r) >= 0 => used[r] = SumHeld(TaskIds \ {i}, r)

\* C5: a job that is in a DONE state keeps that state until it is reset
C5_DoneOnce ==
    [][\A j \in Jobs :
          state[j] \in DONE_STATES => state'[j] \in {state[j], STATE_RESET}]_vars

\* C6: while the tree is cancelled no job of it enters RUNNING
C6_NoStartAfterCancel ==
    [][\A j \in Jobs :
          cancelled[JobTree(j)] /\ state[j] # STATE_RUNNING
          => state'[j] # STATE_RUNNING]_vars

\* what ExecTree.cancel does to the jobs of tree t in a step that sets its
\* cancelled flag: a job that is RUNNING or in a DONE state keeps its state,
\* every other job becomes CANCELLED; and done_event is set in the same step
\* when no must-complete job is RUNNING
CancelStep(t) ==
    ~cancelled[t] /\ cancelled'[t] =>
        /\ \A j \in SeqToSet(TreeJobs(t)) :
              /\ state'[j] = IF state[j] \in DONE_STATES \cup {STATE_RUNNING}
                             THEN state[j] ELSE STATE_CANCELLED
              /\ state'[j] \in events'[j]
        /\ (\A j \in SeqToSet(TreeJobs(t)) : MustComplete(j) => state[j] # STATE_RUNNING)
              => done_event'[t]

\* no must-complete job of tree t is RUNNING
NoMustRunning(t) ==
    \A j \in SeqToSet(TreeJobs(t)) : MustComplete(j) => state[j] # STATE_RUNNING

\* every job of tree t runs a command, none a sub-tree
OnlyCommands(t) == \A j \in SeqToSet(TreeJobs(t)) : JobSubtree(j) = None

\* C7: Tree.cancel makes every job that is neither RUNNING nor DONE CANCELLED
\* and leaves the others; done_event is set at once when no must-complete job
\* is RUNNING, and otherwise eventually, once the running commands have
\* exited, with waitsuccess set or not
C7_CancelSetsDone ==
    /\ [][\A t \in Trees : CancelStep(t)]_vars
    /\ \A t \in Trees :
          (cancelled[t] /\ (NoMustRunning(t) \/ OnlyCommands(t))) ~> done_event[t]

\* cancel() on a started tree before any job has finished, a must-complete
\* job RUNNING: the other jobs are CANCELLED and done_event is still to come
C7_Witness ==
    /\ started[Top] /\ cancelled[Top] /\ ~done_event[Top] /\ WaitSuccess(Top)
    /\ \E j \in Jobs : MustComplete(j) /\ state[j] = STATE_RUNNING
    /\ \E j \in Jobs : state[j] = STATE_CANCELLED
    /\ \A j \in Jobs : state[j] \in {STATE_RUNNING, STATE_CANCELLED}

\* the parent of the dependency greenlet i waits for
WaitsFor(i) == parent_deps(Task(i).job)[Task(i).idx].parent

\* C8: a greenlet that waits in ExecDependency.wait for a parent that is
\* CANCELLED in a cancelled tree eventually returns from the wait and ends
C8_WaitersUnblocked ==
    \A i \in TaskRange :
        (/\ i \in TaskIds
         /\ Task(i).pc = "wait"
         /\ cancelled[JobTree(Task(i).job)]
         /\ state[WaitsFor(i)] = STATE_CANCELLED)
        ~> (i \in TaskIds /\ Task(i).pc = "done")

\* the part of the program C9 is about
CancelView(s) == <<s.cancelled, s.done_event, s.state, s.events>>

\* C9: cancel() called twice in a row leaves the cancelled flags, the done
\* flags and the state and events of every job as the first call left them
C9_CancelIdempotent ==
    \A t \in cfg.trees :
        CancelView(TreeCancel(t, TreeCancel(t, Cur))) = CancelView(TreeCancel(t, Cur))

C9_Witness ==
    /\ ~cancelled[Top] /\ started["U"]
    /\ \E j \in Jobs : state[j] = STATE_RUNNING /\ JobTree(j) = "U"
    /\ \E j \in Jobs :
          /\ JobTree(j) = "U"
          /\ state[j] # STATE_CANCELLED
          /\ TreeCancel(Top, Cur).state[j] = STATE_CANCELLED
    /\ ~TreeCancel(Top, Cur).done_event["U"]

\* C10: while done_event is set every must-complete job of the tree is in a
\* DONE state
C10_DoneMeansDone ==
    \A t \in Trees :
        done_event[t] =>
            \A j \in SeqToSet(TreeJobs(t)) : MustComplete(j) => state[j] \in DONE_STATES

-----------------------------------------------------------------------------

\* every must-complete job of tree t is in a DONE state, and in a SUCCESS
\* state when waitsuccess is set and the tree is not cancelled
MustDone(t) ==
    \A j \in SeqToSet(TreeJobs(t)) :
        MustComplete(j) =>
            /\ state[j] \in DONE_STATES
            /\ WaitSuccess(t) /\ ~cancelled[t] => state[j] \in SUCCESS_STATES

\* a greenlet is blocked in the join of a blocking run() of tree t
InJoin(t) ==
    IF t = Top THEN main = "join"
    ELSE \E i \in TaskIds : Task(i).pc = "join" /\ JobSubtree(Task(i).job) = t

\* run() of tree t has started its jobs (and for a sub-tree, whose flag
\* advance() clears, has not returned)
RunStarted(t) == IF t = Top THEN started[t] ELSE InJoin(t)

\* C11: once run() has started the jobs of a tree and every must-complete
\* job is DONE (SUCCESS with waitsuccess, the tree not cancelled), done_event
\* is eventually set, and a blocking run() that waits on a set done_event
\* returns from its join
C11_DoneFires ==
    \A t \in Trees :
        /\ (t \in cfg.trees /\ RunStarted(t) /\ MustDone(t)) ~> done_event[t]
        /\ (InJoin(t) /\ done_event[t]) ~> ~(InJoin(t) /\ done_event[t])

-----------------------------------------------------------------------------

\* every must-complete job of tree t has a SUCCESS state in sts
MustSuccessIn(t, sts) ==
    \A j \in SeqToSet(TreeJobs(t)) : MustComplete(j) => sts[j] \in SUCCESS_STATES

\* the step is a cancel() of tree t that does not come from t's own is_done:
\* a call from outside, the timeout of run(), or the cancel() of the tree
\* whose sub-tree t is
OutsideCancel(t) ==
    \/ RunTimeout
    \/ \E u \in cfg.trees : Cancel(u)
    \/ \E u \in cfg.trees :
          t \in SeqToSet(TreeSubtrees(u)) /\ ~cancelled[u] /\ cancelled'[u]

-----------------------------------------------------------------------------

\* the tree is the chain A -> B -> C of commands, B requiring s1 of A
Chain(s1) ==
    /\ cfg.trees = {Top} /\ JobPath("A") = "cmd"
    /\ \E s2 \in DEPENDENCY_STATES :
          TreeDeps(Top) = <<Dep("A", "B", s1), Dep("B", "C", s2)>>

\* C13: in a chain A -> B -> C, A becomes FAILED when its runner exits
\* non-zero; if B requires A SUCCESSFULL, B then never enters RUNNING, stays
\* IDLE while the tree is not cancelled, and done_event is not set while B or
\* C must complete; if B requires A FAILED, B goes on to RUNNING
C13_FailedParent ==
    /\ [][\A i \in TaskIds :
             Task(i).job = "A" /\ PopenExit(i, 1) => state'["A"] = STATE_FAILED]_vars
    /\ [](Chain(STATE_SUCCESSFULL) /\ state["A"] = STATE_FAILED =>
             /\ STATE_RUNNING \notin events["B"]
             /\ state["B"] \in {STATE_IDLE, STATE_CANCELLED}
             /\ ~cancelled[Top] =>
                    /\ state["B"] = STATE_IDLE
                    /\ MustComplete("B") \/ MustComplete("C") => ~done_event[Top])
    /\ (Chain(STATE_FAILED) /\ state["A"] = STATE_FAILED)
          ~> (STATE_RUNNING \in events["B"] \/ cancelled[Top])

\* A has FAILED, B waits for A SUCCESSFULL, and is_done has found the tree
\* not done
C13_Witness ==
    /\ Chain(STATE_SUCCESSFULL) /\ state["A"] = STATE_FAILED /\ state["B"] = STATE_IDLE
    /\ \E i \in TaskIds : Task(i).job = "B" /\ Task(i).pc = "wait"
    /\ ~notify[Top] /\ ~cancelled[Top] /\ ~done_event[Top]

-----------------------------------------------------------------------------

\* the dependencies on a job with the command path "-" and no parents that
\* require it SUCCESSFULL
UndefDeps ==
    {d \in UNION {SeqToSet(TreeDeps(t)) : t \in cfg.trees} :
        JobPath(d.parent) = UNDEF_JOB /\ orphan(d.parent) /\ d.state = STATE_SUCCESSFULL}

\* a job with the command path "-" is UNDEF; once its tree has been started,
\* the RUNNING and SUCCESSFULL events of such a job without parents are set
\* and it has no greenlet; and a child that requires it SUCCESSFULL enters
\* RUNNING unless the tree is cancelled
UndefShortCircuit ==
    /\ [](\A j \in Jobs : JobPath(j) = UNDEF_JOB => state[j] = STATE_UNDEF)
    /\ [](\A j \in Jobs :
             JobPath(j) = UNDEF_JOB /\ orphan(j) /\ started[JobTree(j)] =>
                 /\ {STATE_RUNNING, STATE_SUCCESSFULL} \subseteq events[j]
                 /\ \A i \in TaskIds : Task(i).job # j)
    /\ \A c \in Jobs :
          ((\E d \in UndefDeps : d.child = c) /\ Len(parent_deps(c)) = 1
              /\ started[JobTree(c)])
          ~> (STATE_RUNNING \in events[c] \/ cancelled[JobTree(c)])

\* C14: a job with the command path "-" is UNDEF from construction on; when
\* it has no parents, start() sets its RUNNING and SUCCESSFULL events without
\* spawning a greenlet, a child that requires it SUCCESSFULL proceeds, and
\* when the child enters RUNNING the SUCCESSFULL event of the parent is set
\* and the parent's state, still UNDEF, is a SUCCESS state
C14_UndefShortCircuit ==
    /\ UndefShortCircuit
    /\ [][\A d \in UndefDeps :
             state[d.child] # STATE_RUNNING /\ state'[d.child] = STATE_RUNNING =>
                 /\ STATE_SUCCESSFULL \in events'[d.parent]
                 /\ state'[d.parent] = STATE_UNDEF
                 /\ state'[d.parent] \in SUCCESS_STATES]_vars

\* C14 as worded: the same, with the child that enters RUNNING finding the
\* parent in the state SUCCESSFULL
C14_SeesParentSuccessful ==
    /\ UndefShortCircuit
    /\ [][\A d \in UndefDeps :
             state[d.child] # STATE_RUNNING /\ state'[d.child] = STATE_RUNNING =>
                 state'[d.parent] = STATE_SUCCESSFULL]_vars

\* the child of an UNDEF job without parents runs, and the parent has no
\* greenlet
C14_Witness ==
    \E d \in UndefDeps :
        /\ state[d.child] = STATE_RUNNING
        /\ state[d.parent] = STATE_UNDEF
        /\ \A i \in TaskIds : Task(i).job # d.parent

-----------------------------------------------------------------------------

\* the tree of A with [R1, R2] and B with [R2, R1], both of capacity 1
Contend ==
    /\ cfg.trees = {Top} /\ TreeDeps(Top) = <<>>
    /\ JobResources("A") = <<"R1", "R2">> /\ JobResources("B") = <<"R2", "R1">>
    /\ Avail("R1") = 1 /\ Avail("R2") = 1

\* the greenlet of job j is inside _acquire_resources
Acquiring(j) ==
    \E i \in TaskIds : Task(i).job = j /\ Task(i).pc \in {"reserve", "backoff"}

\* the job has reached its runner
ReachedRunner(j) == STATE_RUNNING \in events[j]

-----------------------------------------------------------------------------

\* the acquisition of job j has given up: the job is FAILED without having
\* reached its runner, and its greenlet has ended
GaveUp(j) ==
    /\ state[j] = STATE_FAILED /\ ~ReachedRunner(j)
    /\ \E i \in TaskIds : Task(i).job = j /\ Task(i).pc = "done"

\* C16: the backoff after the max_attempts-th failed attempt ends the
\* greenlet with the job FAILED, its RUNNING event not set and its execcount
\* and failcount as they were; the step changes no other job, no resource
\* and no tree flag, and the job keeps execcount = failcount = 0
C16_ExhaustionFails ==
    /\ [][\A i \in TaskIds :
             Task(i).pc = "backoff" /\ Task(i).attempt >= MaxAttempts /\ BackoffWake(i) =>
                 LET j == Task(i).job
                 IN /\ st'.tasks[i].pc = "done"
                    /\ state'[j] = STATE_FAILED
                    /\ STATE_RUNNING \notin events'[j]
                    /\ execcount' = execcount /\ failcount' = failcount
                    /\ \A k \in Jobs \ {j} : state'[k] = state[k]
                    /\ \A k \in TaskIds \ {i} : st'.tasks[k] = Task(k)
                    /\ used' = used /\ cancelled' = cancelled
                    /\ done_event' = done_event]_vars
    /\ [](\A j \in Jobs : GaveUp(j) => execcount[j] = 0 /\ failcount[j] = 0)

\* a job has given up while another job of the tree, not cancelled, runs
C16_Witness ==
    /\ ~cancelled[Top] /\ MaxAttempts > 0
    /\ \E j \in Jobs : GaveUp(j) /\ Len(JobResources(j)) > 1
    /\ \E i \in TaskIds : Task(i).pc = "popen"

-----------------------------------------------------------------------------

\* the sub-tree U of job A has an iterator
Iterated == cfg.trees = {"T", "U"} /\ JobSubtree("A") = "U" /\ IterLen("U") >= 0

\* the runs of U that have started its jobs: each one spawns one greenlet
\* for the command job C
RunsOfU == Cardinality({i \in TaskIds : Task(i).job = "C"})

\* C17: with an iterator of n arguments on the sub-tree U, the cursor never
\* passes n and U is never run more than n or cursor + 1 times; when the
\* join of an iteration returns with every job of U in a SUCCESS state the
\* cursor moves on by one and U is run again unless the iterator is then
\* exhausted, otherwise the cursor stays, U is not run again and the job is
\* FAILED; so iterrun ends with n runs and the cursor at n after n
\* successful iterations, with the cursor below n after a failed one, and
\* without any run when the iterator is exhausted on entry
C17_IterRun ==
    /\ [](Iterated =>
             /\ iter_run["U"] <= IterLen("U")
             /\ RunsOfU <= IterLen("U") /\ RunsOfU <= iter_run["U"] + 1
             /\ IterLen("U") = 0 => ~started["U"] /\ RunsOfU = 0
             /\ \A i \in TaskIds :
                   Task(i).job = "A" /\ Task(i).pc = "done" =>
                       /\ state["A"] = STATE_SUCCESSFULL =>
                              /\ IterLen("U") >= 1
                              /\ iter_run["U"] = IterLen("U")
                              /\ RunsOfU = IterLen("U")
                       /\ state["A"] = STATE_FAILED /\ IterLen("U") >= 1 =>
                              /\ iter_run["U"] < IterLen("U")
                              /\ RunsOfU = IF started["U"] THEN iter_run["U"] + 1 ELSE 0)
    /\ [][Iterated =>
            \A i \in TaskIds :
                Task(i).job = "A" /\ JoinWake(i) =>
                    IF \A j \in SeqToSet(TreeJobs("U")) : state[j] \in SUCCESS_STATES
                    THEN /\ iter_run'["U"] = iter_run["U"] + 1
                         /\ IF iter_run["U"] + 1 < IterLen("U")
                            THEN /\ Cardinality({k \in DOMAIN st'.tasks :
                                        st'.tasks[k].job = "C"}) = RunsOfU + 1
                                 /\ st'.tasks[i].pc = "join"
                            ELSE /\ Cardinality({k \in DOMAIN st'.tasks :
                                        st'.tasks[k].job = "C"}) = RunsOfU
                                 /\ st'.tasks[i].pc = "done"
                                 /\ state'["A"] = STATE_SUCCESSFULL
                    ELSE /\ iter_run'["U"] = iter_run["U"]
                         /\ Cardinality({k \in DOMAIN st'.tasks :
                                st'.tasks[k].job = "C"}) = RunsOfU
                         /\ st'.tasks[i].pc = "done"
                         /\ state'["A"] = STATE_FAILED]_vars

\* iterrun has ended after two successful iterations of U
C17_Witness ==
    /\ Iterated /\ IterLen("U") = 2 /\ iter_run["U"] = 2 /\ RunsOfU = 2
    /\ state["A"] = STATE_SUCCESSFULL
    /\ \E i \in TaskIds : Task(i).job = "A" /\ Task(i).pc = "done"

-----------------------------------------------------------------------------

\* execcount and failcount never decrease, and failcount <= execcount
CountsGrow ==
    /\ [][\A j \in Jobs : execcount'[j] >= execcount[j] /\ failcount'[j] >= failcount[j]]_vars
    /\ [](\A j \in Jobs : failcount[j] <= execcount[j])

\* iterrun of the sub-tree U has returned in the greenlet of job A
IterRunOver ==
    Iterated /\ \E i \in TaskIds : Task(i).job = "A" /\ Task(i).pc = "done"

\* C18: execcount and failcount never decrease, failcount <= execcount, and
\* with an iterator on the sub-tree U the execcount of a job of U that has a
\* command is at least the number of iterations that ended in success (the
\* cursor) and at most the number of runs of U: it counts the runs in which
\* the command of the job was executed, the failed iteration included; it is
\* the number of iterations when iterrun ends in success; the execcount of an
\* UNDEF job stays 0
C18_ExecCount ==
    /\ CountsGrow
    /\ [](Iterated =>
             \A j \in SeqToSet(TreeJobs("U")) :
                 IF JobPath(j) = UNDEF_JOB THEN execcount[j] = 0
                 ELSE /\ iter_run["U"] <= execcount[j] /\ execcount[j] <= RunsOfU
                      /\ IterRunOver /\ state["A"] = STATE_SUCCESSFULL =>
                             execcount[j] = IterLen("U"))

\* C18 as worded: after iterrun the execcount of every job of U is the number
\* of completed iterations, read as the iterations that ended in success or
\* as the runs of U
C18_ExecCountIsIterations ==
    /\ CountsGrow
    /\ [](IterRunOver =>
             \/ \A j \in SeqToSet(TreeJobs("U")) : execcount[j] = iter_run["U"]
             \/ \A j \in SeqToSet(TreeJobs("U")) : execcount[j] = RunsOfU)

\* iterrun has ended in the second iteration, in which B failed and C, which
\* waits for B, did not run
C18_Witness ==
    /\ IterRunOver /\ iter_run["U"] = 1 /\ RunsOfU = 2
    /\ execcount["B"] = 2 /\ failcount["B"] = 1
    /\ execcount["C"] = 1 /\ failcount["C"] = 0

-----------------------------------------------------------------------------
(* C19, C20: validate *)

\* the jobs one dependency above the job j
ParentSet(j) == {parents(j)[k] : k \in DOMAIN parents(j)}

\* the ancestors of the job j: every job from which a chain of dependencies
\* leads to j
Ancestors(j) ==
    LET RECURSIVE Grow(_)
        Grow(S) == LET n == S \cup UNION {ParentSet(x) : x \in S}
                   IN IF n = S THEN S ELSE Grow(n)
    IN Grow(ParentSet(j))

\* the defined stems of the tree t: the jobs not UNDEF with no defined ancestor
DefinedStems(t) ==
    {j \in SeqToSet(TreeJobs(t)) :
        state[j] # STATE_UNDEF /\ \A a \in Ancestors(j) : state[a] = STATE_UNDEF}

\* the dependency graph of t has no cycle
Acyclic(t) == \A j \in SeqToSet(TreeJobs(t)) : j \notin Ancestors(j)

\* every defined job of t is a stem or a descendant of one
Connected(t) ==
    \A j \in SeqToSet(TreeJobs(t)) :
        state[j] # STATE_UNDEF => j \in DefinedStems(t) \/ Ancestors(j) \cap DefinedStems(t) # {}

RECURSIVE ValidTree(_)

\* the job j has exactly one runner: a command that is executable or "-", or
\* a sub-tree that validates
RunnerOk(j) ==
    /\ (JobPath(j) # None) # (JobSubtree(j) # None)
    /\ IF JobPath(j) # None THEN JobPath(j) \in {"cmd", UNDEF_JOB}
       ELSE ValidTree(JobSubtree(j))

\* the conditions under which a tree is valid
ValidTree(t) ==
    /\ Cardinality(DefinedStems(t)) = 1
    /\ Acyclic(t)
    /\ Connected(t)
    /\ \A j \in SeqToSet(TreeJobs(t)) : RunnerOk(j)
    /\ IterLen(t) = -1 \/ IterLen(t) >= 1

\* C19: validate() returns an empty list of errors if and only if the tree
\* has exactly one defined stem, no cycle, every defined job reachable from
\* the stem, a valid runner for every job (sub-trees included), and an
\* iterator, if any, with at least one argument
C19_ValidateIff ==
    main = "validated" =>
        ((~errors.raised /\ errors.errors = <<>>) <=> ValidTree(Top))

\* a valid tree with an UNDEF job between two defined ones was validated
C19_Witness ==
    /\ main = "validated"
    /\ ~errors.raised /\ errors.errors = <<>>
    /\ ValidTree(Top)
    /\ Len(TreeDeps(Top)) >= 2
    /\ \E j \in SeqToSet(TreeJobs(Top)) :
          state[j] = STATE_UNDEF /\ ParentSet(j) # {} /\ children(j) # <<>>

\* the tree is the cycle A -> B -> A of two defined jobs
CycleAB ==
    /\ TreeJobs(Top) = <<"A", "B">>
    /\ SeqToSet(TreeDeps(Top)) = Edges({"A", "B"})
    /\ state["A"] # STATE_UNDEF /\ state["B"] # STATE_UNDEF

\* C20: for the cycle A -> B -> A of two defined jobs, the list validate()
\* returns contains the "has cycles" error
C20_CycleReported ==
    (main = "validated" /\ CycleAB) =>
        (~errors.raised /\ "has cycles" \in SeqToSet(errors.errors))

-----------------------------------------------------------------------------
(* C21: the blocking run() with a timeout *)

\* the blocking run() of the top-level tree returns in this step
RunReturns == main = "join" /\ main' = "returned"

\* what cancel() has done to the jobs of tree t in this step: the RUNNING
\* jobs are left as they are, the jobs in a DONE state too, every other job
\* is CANCELLED
CancelledInStep(t) ==
    /\ cancelled'[t]
    /\ \A j \in SeqToSet(TreeJobs(t)) :
          /\ state[j] \in DONE_STATES \cup {STATE_RUNNING} => state'[j] = state[j]
          /\ state[j] \notin DONE_STATES \cup {STATE_RUNNING} => state'[j] = STATE_CANCELLED
    /\ tasks' = tasks

\* C21: a blocking run() with a finite timeout returns; when it returns the
\* done flag is set and nothing has changed, or cancel() has been called:
\* cancelled is true, the jobs that were neither RUNNING nor DONE are
\* CANCELLED and the RUNNING jobs are left running; and once the tree is
\* cancelled and no must-complete job is outside DONE, the done flag is set
C21_TimedRunReturns ==
    /\ (main = "join") ~> (main = "returned")
    /\ [][RunReturns => (done_event[Top] /\ st' = st) \/ CancelledInStep(Top)]_vars
    /\ (main = "returned" /\ started[Top] /\ cancelled[Top] /\ MustDone(Top))
           ~> done_event[Top]

\* the run() has returned by its timeout: the tree is cancelled and not done,
\* a must-complete job is still RUNNING and another one is CANCELLED
C21_Witness ==
    /\ main = "returned"
    /\ started[Top] /\ cancelled[Top] /\ ~done_event[Top]
    /\ \E j, k \in SeqToSet(TreeJobs(Top)) :
          /\ MustComplete(j) /\ state[j] = STATE_RUNNING
          /\ state[k] = STATE_CANCELLED

-----------------------------------------------------------------------------
(* C22: the current argument of an iterator *)

Min(a, b) == IF a < b THEN a ELSE b

\* C22: with the cursor run in 0..len(args), the current argument is
\* args[min(run, len(args) - 1)] (counted from 0), and the empty string when
\* there is no argument
C22_CurrentArgument ==
    (ret.op = "argument" /\ iter_run["U"] \in 0..Len(IterArgs("U"))) =>
        ret.val = IF IterArgs("U") = <<>> THEN ""
                  ELSE IterArgs("U")[Min(iter_run["U"], Len(IterArgs("U")) - 1) + 1]

-----------------------------------------------------------------------------
(* C23: the jobpath setter *)

\* the caller sets the jobpath of job j to value in this step
SetsJobpath(j, value) ==
    /\ calls' = calls + 1
    /\ ret'.op = "jobpath" /\ ret'.arg = j
    /\ \/ ret'.val = "ok" /\ cfg'.jobpath[j] = value
       \/ ret'.val = JobError /\ cfg' = cfg
    /\ SetJobpath(j, value)

\* C23: the jobpath setter succeeds only in the states IDLE, UNDEF and
\* BLOCKED; in every other state it raises an error and leaves the jobpath and
\* the state as they are; "-" set on an IDLE job makes it UNDEF; and a job is
\* UNDEF exactly when its jobpath is "-"
C23_JobpathSetter ==
    /\ [][\A j \in ApiJobs, value \in {"cmd", UNDEF_JOB} :
            SetsJobpath(j, value) =>
               /\ ret'.val = "ok" => state[j] \in PRESTART_STATES
               /\ state[j] \notin PRESTART_STATES =>
                     ret'.val = JobError /\ cfg' = cfg /\ state' = state
               /\ (value = UNDEF_JOB /\ state[j] = STATE_IDLE /\ ret'.val = "ok") =>
                     state'[j] = STATE_UNDEF]_vars
    /\ [](\A j \in ApiJobs : state[j] = STATE_UNDEF <=> JobPath(j) = UNDEF_JOB)

-----------------------------------------------------------------------------
(* C24: jobpath or sub-tree, never both *)

\* C24: no job has both a jobpath and a sub-tree; a jobpath that is not None
\* set on a job with a sub-tree raises an error and changes nothing of the
\* job (a constructor called with both raises too, and builds no job)
C24_OneRunner ==
    /\ [](\A j \in Jobs : ~(JobPath(j) # None /\ JobSubtree(j) # None))
    /\ [][\A j \in ApiJobs, value \in {"cmd", UNDEF_JOB} :
            (SetsJobpath(j, value) /\ JobSubtree(j) # None) =>
               /\ ret'.val = JobError
               /\ cfg' = cfg
               /\ state'[j] = state[j] /\ events'[j] = events[j]]_vars

\* the setter has raised on a job with a sub-tree that is still IDLE
C24_Witness ==
    /\ ret = Ret("jobpath", "A", JobError)
    /\ JobSubtree("A") = "U" /\ JobPath("A") = None
    /\ state["A"] = STATE_IDLE

-----------------------------------------------------------------------------
(* C25: ExecJob.cancel *)

\* the caller calls cancel() on job j in this step
CancelsJob(j) ==
    calls' = calls + 1 /\ ret'.op = "cancel" /\ ret'.arg = j

\* C25: cancel() on a RUNNING job returns False and changes neither the state
\* nor an event; on a job in a DONE state it returns True and changes
\* nothing; on any other job it sets the state CANCELLED and its event and
\* returns True
C25_JobCancel ==
    [][\A j \in ApiJobs :
         CancelsJob(j) =>
            /\ state[j] = STATE_RUNNING =>
                  ret'.val = "False" /\ state' = state /\ events' = events
            /\ state[j] \in DONE_STATES =>
                  ret'.val = "True" /\ state' = state /\ events' = events
            /\ state[j] \notin DONE_STATES \cup {STATE_RUNNING} =>
                  /\ ret'.val = "True"
                  /\ state'[j] = STATE_CANCELLED
                  /\ events'[j] = events[j] \cup {STATE_CANCELLED}]_vars

\* cancel() has returned True on a job that was BLOCKED in the reservation of
\* its resource, and the job is CANCELLED
C25_Witness ==
    /\ ret = Ret("cancel", "A", "True")
    /\ state["A"] = STATE_CANCELLED
    /\ \E i \in TaskIds : Task(i).job = "A" /\ Task(i).pc = "reserve"

-----------------------------------------------------------------------------
(* C26: ExecTree.advance *)

\* advance() is called on tree t in this step: the cursor of its iterator
\* moves by one
Advances(t) == iter_run'[t] = iter_run[t] + 1

\* C26: after advance() the done flag is clear, cancelled is false, the
\* cursor has moved by one and every job of the tree that is not UNDEF is
\* RESET with the events of its earlier states cleared, also when the advance
\* exhausts the iterator
C26_Advance ==
    [][\A t \in Trees :
         Advances(t) =>
            /\ ~done_event'[t]
            /\ ~cancelled'[t]
            /\ \A j \in SeqToSet(TreeJobs(t)) :
                  state[j] # STATE_UNDEF =>
                     state'[j] = STATE_RESET /\ events'[j] = {STATE_RESET}]_vars

-----------------------------------------------------------------------------
(* C27: the backoff sleep of _acquire_resources *)

\* the greenlet i goes from a failed reserve() to the backoff sleep in this
\* step
EntersBackoff(i) == Task(i).pc = "reserve" /\ st'.tasks[i].pc = "backoff"

\* C27: a job that enters the backoff sleep has released every reservation
\* it made in the failed attempt and no other: each counted resource goes
\* down by exactly the number of reservations the job held on it
C27_BackoffHoldsNothing ==
    [][\A i \in TaskIds :
         EntersBackoff(i) =>
            \A r \in Resources : Avail(r) >= 0 => used'[r] = used[r] - Held(i, r)]_vars

-----------------------------------------------------------------------------
(* C28: the event of the current state *)

\* the jobs that have been built
Built == {j \in Jobs : JobTree(j) # None}

\* C28: whatever the run and the caller have done to a job, the event of its
\* current state is set, and every step that changes the state of a job sets
\* the event of the new state
C28_CurrentStateEvent ==
    /\ [](\A j \in Built : state[j] \in events[j])
    /\ [][\A j \in Built : state'[j] # state[j] => state'[j] \in events'[j]]_vars

-----------------------------------------------------------------------------
(* C29: the job that delegates to a sub-tree *)

\* iterrun() of the sub-tree of job j returns in this step, and _run goes on
\* to its end
SubtreeReturns(j) == JobSubtree(j) # None /\ execcount'[j] = execcount[j] + 1

\* every job of tree t is in a SUCCESS state after the step
AllSuccessAfter(t) == \A k \in SeqToSet(TreeJobs(t)) : state'[k] \in SUCCESS_STATES

\* tree t has must-complete jobs, and each of them is in a SUCCESS state after
\* the step
MustSuccessAfter(t) ==
    /\ \E k \in SeqToSet(TreeJobs(t)) : MustComplete(k)
    /\ \A k \in SeqToSet(TreeJobs(t)) : MustComplete(k) => state'[k] \in SUCCESS_STATES

\* C29: a job that delegates to a sub-tree ends SUCCESSFULL if and only if
\* every job of the sub-tree, must-complete or not, is in a SUCCESS state when
\* iterrun() returns, and FAILED otherwise
C29_SubtreeResult ==
    [][\A j \in Jobs :
         SubtreeReturns(j) =>
            /\ state'[j] \in {STATE_SUCCESSFULL, STATE_FAILED}
            /\ state'[j] = STATE_SUCCESSFULL <=> AllSuccessAfter(JobSubtree(j))]_vars

\* C29 as stated: the same, and in particular a sub-tree whose must-complete
\* jobs have all succeeded makes the job SUCCESSFULL
C29_MustCompleteSuffices ==
    [][\A j \in Jobs :
         SubtreeReturns(j) =>
            /\ state'[j] \in {STATE_SUCCESSFULL, STATE_FAILED}
            /\ state'[j] = STATE_SUCCESSFULL <=> AllSuccessAfter(JobSubtree(j))
            /\ MustSuccessAfter(JobSubtree(j)) => state'[j] = STATE_SUCCESSFULL]_vars

\* the job A has FAILED after one run of its sub-tree in which the
\* must-complete job B succeeded and the job C, which need not complete, was
\* cancelled
C29_Witness ==
    /\ state["A"] = STATE_FAILED /\ execcount["A"] = 1
    /\ JobSubtree("A") = "U"
    /\ MustComplete("B") /\ state["B"] = STATE_SUCCESSFULL
    /\ ~MustComplete("C") /\ state["C"] = STATE_CANCELLED

-----------------------------------------------------------------------------
(* C30: run() on a cancelled tree *)

\* run() is called on the top-level tree in this step, for the first time or
\* again
RunsTop == (main = "init" /\ main' # "init") \/ reruns' = reruns + 1

\* a greenlet is spawned in this step for a job of tree t
SpawnsFor(t) ==
    \E i \in DOMAIN st'.tasks : i \notin DOMAIN tasks /\ JobTree(st'.tasks[i].job) = t

\* C30: run() on a cancelled tree returns at once and does nothing: no job is
\* started, no link is attached, started, the done flag and the state of
\* every job are as before; the jobs of a cancelled tree are only started
\* again after an advance()
C30_RunCancelledNoOp ==
    /\ [][(RunsTop /\ cancelled[Top]) =>
             /\ main' = "returned"
             /\ tasks' = tasks
             /\ started' = started /\ notify' = notify
             /\ done_event' = done_event /\ cancelled' = cancelled
             /\ state' = state /\ events' = events]_vars
    /\ [][\A t \in Trees : (SpawnsFor(t) /\ cancelled[t]) => Advances(t)]_vars

\* run() has been called again on the tree of the single job B after B has
\* FAILED and the tree was done and cancelled: no second greenlet exists
C30_Witness ==
    /\ reruns = 1 /\ main = "returned"
    /\ TreeJobs(Top) = <<"B">>
    /\ cancelled[Top] /\ done_event[Top]
    /\ state["B"] = STATE_FAILED
    /\ Len(tasks) = 1

-----------------------------------------------------------------------------
(* C31: the dependency list built by add_job and add_dep *)

\* the dependency list of tree t has no dependency of a job on itself, only
\* dependencies between jobs of t, and no two dependencies with the same
\* parent and child
WellFormedDeps(t) ==
    /\ \A d \in SeqToSet(TreeDeps(t)) :
          /\ d.parent # d.child
          /\ d.parent \in SeqToSet(TreeJobs(t))
          /\ d.child \in SeqToSet(TreeJobs(t))
    /\ \A a, b \in DOMAIN TreeDeps(t) :
          a # b => ~(TreeDeps(t)[a].parent = TreeDeps(t)[b].parent
                     /\ TreeDeps(t)[a].child = TreeDeps(t)[b].child)

\* the step is an add_dep call that raised an exception
RejectedAddDep ==
    /\ calls' = calls + 1
    /\ ret'.op = "add_dep"
    /\ ret'.val \in BuildErrors

\* C31: after any sequence of add_job and add_dep calls, accepted or
\* rejected, no dependency of a tree has the same job as parent and child,
\* both jobs of every dependency are jobs of the tree, and no ordered pair of
\* parent and child has two dependencies; an add_dep call that is rejected
\* leaves the dependency lists as they were
C31_DepsWellFormed ==
    /\ [](\A t \in Trees : WellFormedDeps(t))
    /\ [][RejectedAddDep => cfg'.deps = cfg.deps]_vars

\* a tree with a dependency, after calls to add_dep that were rejected for a
\* dependency of a job on itself, for a job of the other tree and for a
\* dependency that is already in the list
C31_Witness ==
    /\ calls = MaxBuild
    /\ TreeDeps("T") # <<>>
    /\ TreeJobs("U") # <<>>
    /\ ret.op = "add_dep"
    /\ ret.val \in {DependencyError, JobUndefinedError, None}

-----------------------------------------------------------------------------
(* C32: UNDEF is left by no operation *)

\* C32: a job that is in UNDEF is in UNDEF after every step, whether the step
\* is of start, of _run, of a cancel or reset of the job, of the cancel or
\* advance of its tree or of the jobpath setter, and it is done and
\* successful for is_done and is_success of its tree
C32_UndefAbsorbing ==
    [][\A j \in Jobs :
          state[j] = STATE_UNDEF
          => /\ state'[j] = STATE_UNDEF
             /\ is_done(j, st') /\ is_success(j, st')]_vars

\* the sub-tree U has advanced to its second iteration with its job B in
\* UNDEF, after the caller has reset B
C32_Witness ==
    /\ cfg \in UndefConfigs
    /\ iter_run["U"] = 1
    /\ state["B"] = STATE_UNDEF
    /\ ret.op = "reset" /\ ret.arg = "B"
    /\ \E i \in TaskIds : tasks[i].job = "C" /\ tasks[i].pc = "done"

-----------------------------------------------------------------------------
(* C33: one greenlet and one invocation of the runner per job *)

\* the greenlets of job j that are in _acquire_resources or in the runner
\* (the command, or iterrun of the sub-tree)
ActiveTasks(j) ==
    {i \in TaskIds : Task(i).job = j /\ Task(i).pc \in {"reserve", "backoff", "popen", "join"}}

\* the greenlets of job j that are in the runner
InRunner(j) == {i \in TaskIds : Task(i).job = j /\ Task(i).pc \in {"popen", "join"}}

\* no tree of the model has an iterator, so that iterrun never calls advance()
NoAdvance == \A t \in Trees : IterLen(t) = -1

\* C33: in a tree on which only run(), blocking or not, and cancel() are
\* called, and neither advance() nor reset(), the runner of a job is invoked
\* at most once (its finished invocations and the one in progress), and at
\* most one greenlet of the job is acquiring resources or in the runner
C33_RunnerOnce ==
    NoAdvance =>
        \A j \in Jobs :
            /\ Cardinality(ActiveTasks(j)) <= 1
            /\ execcount[j] + Cardinality(InRunner(j)) <= 1

-----------------------------------------------------------------------------
(* C34: validate comes to an end *)

\* C34: validate() of a tree returns its list of errors whatever the
\* dependencies are: neither the computation of the stems, with
\* has_defined_anscestors over the parents, nor the search for cycles goes on
\* for ever, also with a cycle of UNDEF jobs or a cycle no stem leads to
C34_ValidateTerminates ==
    main = "validated" => ~errors.raised

====
